---- MODULE Spec2Model ----
(***************************************************************************)
(* Model of the ChordScaleRandomizer component                             *)
(* (src/src/ChordScaleRandomizer.tsx): the scale-degree session, the       *)
(* note-confirmation gate of detectPitch, the result recording of          *)
(* performRandomize and of the auto-randomization effect, and the          *)
(* asynchronous microphone acquisition of the two start paths.             *)
(*                                                                         *)
(* React state is a variable per useState cell, refs are a variable per    *)
(* useRef cell.  An event handler is one action together with the render   *)
(* and the effects it causes.  The state written by performRandomize with  *)
(* setCurrentScaleDegree / setLastCombination reaches the component (and   *)
(* currentStateRef) at the next render, which is the action Render.        *)
(* Pitch classes and keys are indices into NOTE_NAMES / KEYS; the flat     *)
(* sign of a degree label is written "b".                                  *)
(***************************************************************************)
EXTENDS Integers, Sequences, FiniteSets, TLC

\* ----------------------------------------------------------------------
\* Bounds of the model
\* ----------------------------------------------------------------------
MaxKey == 1          \* keys 0..MaxKey can be selected
MaxDegree == 2       \* degrees 1..MaxDegree are drawn by the session generator
SemiSpan == 1        \* detected pitches: SemiSpan + 1 adjacent semitones from C
MaxOctave == 0       \* ... in the octave of C4 and MaxOctave octaves above it
MaxResults == 2      \* longest outcome sequence explored
MaxPending == 1      \* getUserMedia calls in flight per origin
MaxLoops == 2        \* requestAnimationFrame loops alive at once
FrameMs == 75        \* time between two estimation cycles

\* ----------------------------------------------------------------------
\* Program constants
\* ----------------------------------------------------------------------
NumNotes == 12
NumDegrees == 7
DETECTION_DURATION_MS == 150
OscillatorsPerChord == 9
majorIntervals == <<0, 2, 4, 5, 7, 9, 11>>
minorIntervals == <<0, 2, 3, 5, 7, 8, 10>>
minorDegreeNames == <<"1", "2", "b3", "4", "5", "b6", "b7">>
DegreeDigits == <<"1", "2", "3", "4", "5", "6", "7">>
Modes == {"major", "minor"}
Directions == {"ABOVE", "BELOW"}
Origins == {"key", "button", "detect"}

NoNote == -1                                      \* null / "" for a note name
NoPitch == 100                                    \* the estimator found no signal
NoCombination == [degree |-> 0, direction |-> "NONE"]   \* null ScaleDegree

Keys == 0..MaxKey
\* Rounded semitone offsets from A4 the estimator reports: C4 is 9 below A4.
Semitones == {12 * o - 9 + i : o \in 0..MaxOctave, i \in 0..SemiSpan}
Estimates == Semitones \cup {NoPitch}

\* ----------------------------------------------------------------------
\* Pure functions
\* ----------------------------------------------------------------------
\* JavaScript's % : the result takes the sign of the dividend.
JsRem(a, b) == IF a >= 0 THEN a % b ELSE 0 - ((0 - a) % b)

Intervals(m) == IF m = "major" THEN majorIntervals ELSE minorIntervals

\* Faulty variant: the major intervals are used in both modes.
getExpectedNote_MajorOnly(keyIndex, scaleDegree, m) ==
    JsRem(keyIndex + majorIntervals[scaleDegree], NumNotes)

getExpectedNote(keyIndex, scaleDegree, m) ==
    JsRem(keyIndex + Intervals(m)[scaleDegree], NumNotes)

\* Faulty variant: no key is lowered by an octave.
getFrequency_NoOctaveAdjustment(keyIndex, m) ==
    IF m = "major"
    THEN <<keyIndex, keyIndex + 4, keyIndex + 7>>
    ELSE <<keyIndex, keyIndex + 3, keyIndex + 7>>

\* getFrequency: every frequency is baseFrequency * semitoneRatio ^ e for a
\* whole exponent e, and is recorded as that exponent, the semitone offset
\* from C4.
getFrequency(keyIndex, m) ==
    LET octaveAdjustment == IF keyIndex >= 8 THEN 0 - 12 ELSE 0
        adjustedKeyIndex == keyIndex + octaveAdjustment
    IN  IF m = "major"
        THEN <<adjustedKeyIndex, adjustedKeyIndex + 4, adjustedKeyIndex + 7>>
        ELSE <<adjustedKeyIndex, adjustedKeyIndex + 3, adjustedKeyIndex + 7>>

\* Faulty variant: a negative remainder is returned as it is.
frequencyToNote_NoFixup(semitones) == JsRem(9 + semitones, NumNotes)

\* Faulty variant: the offset is counted from C, not from A (index 9).
frequencyToNote_FromC(semitones) ==
    LET noteIndex == JsRem(semitones, NumNotes)
    IN  IF noteIndex < 0 THEN noteIndex + NumNotes ELSE noteIndex

\* frequencyToNote, on the rounded semitone offset from A4.
frequencyToNote(semitones) ==
    LET noteIndex == JsRem(9 + semitones, NumNotes)
    IN  IF noteIndex < 0 THEN noteIndex + NumNotes ELSE noteIndex

IndexOf(seq, v) ==
    IF \E i \in 1..Len(seq) : seq[i] = v
    THEN CHOOSE i \in 1..Len(seq) : seq[i] = v /\ \A j \in 1..(i - 1) : seq[j] # v
    ELSE 0

\* The loop over the degrees of noteToScaleDegree: the first degree whose
\* sharp or flat alteration gives a label decides.
RECURSIVE MajorAltered(_, _)
MajorAltered(interval, i) ==
    IF i > Len(majorIntervals) THEN "?"
    ELSE IF interval = JsRem(majorIntervals[i] + 1, NumNotes) THEN "#" \o DegreeDigits[i]
    ELSE IF interval = JsRem(majorIntervals[i] - 1 + 12, NumNotes) THEN "b" \o DegreeDigits[i]
    ELSE MajorAltered(interval, i + 1)

IsFlatName(name) == name \in {"b3", "b6", "b7"}

\* Faulty variant: the sharp of a flat-named degree gives no label.
RECURSIVE MinorAltered_NoNatural(_, _)
MinorAltered_NoNatural(interval, i) ==
    IF i > Len(minorIntervals) THEN "?"
    ELSE IF interval = JsRem(minorIntervals[i] + 1, NumNotes)
            /\ ~IsFlatName(minorDegreeNames[i])
         THEN "#" \o minorDegreeNames[i]
    ELSE IF interval = JsRem(minorIntervals[i] - 1 + 12, NumNotes)
            /\ ~IsFlatName(minorDegreeNames[i])
         THEN "b" \o minorDegreeNames[i]
    ELSE MinorAltered_NoNatural(interval, i + 1)

RECURSIVE MinorAltered(_, _)
MinorAltered(interval, i) ==
    IF i > Len(minorIntervals) THEN "?"
    ELSE IF interval = JsRem(minorIntervals[i] + 1, NumNotes)
         THEN IF IsFlatName(minorDegreeNames[i])
              THEN DegreeDigits[i]
              ELSE "#" \o minorDegreeNames[i]
    ELSE IF interval = JsRem(minorIntervals[i] - 1 + 12, NumNotes)
            /\ ~IsFlatName(minorDegreeNames[i])
         THEN "b" \o minorDegreeNames[i]
    ELSE MinorAltered(interval, i + 1)

\* Faulty variant: the alterations are tried before the exact match.
noteToScaleDegree_AlteredFirst(noteIndex, keyIndex, m) ==
    IF noteIndex = NoNote \/ keyIndex = NoNote THEN "?"
    ELSE LET interval == JsRem(noteIndex - keyIndex + 12, NumNotes)
         IN  IF m = "major"
             THEN IF MajorAltered(interval, 1) # "?"
                  THEN MajorAltered(interval, 1)
                  ELSE DegreeDigits[IndexOf(majorIntervals, interval)]
             ELSE IF interval = 11 THEN "7"
                  ELSE IF MinorAltered(interval, 1) # "?"
                  THEN MinorAltered(interval, 1)
                  ELSE minorDegreeNames[IndexOf(minorIntervals, interval)]

\* Faulty variant: the minor branch has no case of its own for the interval
\* of 11 semitones.
noteToScaleDegree_NoLeadingTone(noteIndex, keyIndex, m) ==
    IF noteIndex = NoNote \/ keyIndex = NoNote THEN "?"
    ELSE LET interval == JsRem(noteIndex - keyIndex + 12, NumNotes)
         IN  IF m = "major"
             THEN IF IndexOf(majorIntervals, interval) # 0
                  THEN DegreeDigits[IndexOf(majorIntervals, interval)]
                  ELSE MajorAltered(interval, 1)
             ELSE IF IndexOf(minorIntervals, interval) # 0
                  THEN minorDegreeNames[IndexOf(minorIntervals, interval)]
                  ELSE MinorAltered(interval, 1)

noteToScaleDegree(noteIndex, keyIndex, m) ==
    IF noteIndex = NoNote \/ keyIndex = NoNote THEN "?"
    ELSE LET interval == JsRem(noteIndex - keyIndex + 12, NumNotes)
         IN  IF m = "major"
             THEN IF IndexOf(majorIntervals, interval) # 0
                  THEN DegreeDigits[IndexOf(majorIntervals, interval)]
                  ELSE MajorAltered(interval, 1)
             ELSE IF IndexOf(minorIntervals, interval) # 0
                  THEN minorDegreeNames[IndexOf(minorIntervals, interval)]
                  ELSE IF interval = 11 THEN "7"
                  ELSE MinorAltered(interval, 1)

\* Faulty variant: every degree can be drawn without a direction.
DrawsOver_Undirected(maxDegree) ==
    {[degree |-> n, direction |-> d] :
         n \in 1..maxDegree, d \in {"NONE"} \cup Directions}

\* One pass of the do-while body of generateNewScaleDegree.
DrawsOver(maxDegree) ==
    {[degree |-> 1, direction |-> d] : d \in {"NONE"} \cup Directions}
      \cup {[degree |-> n, direction |-> d] : n \in 2..maxDegree, d \in Directions}

\* Faulty variant: the loop compares the degrees only.
SameCombination_DegreeOnly(a, last) ==
    last # NoCombination /\ a.degree = last.degree

SameCombination(a, last) ==
    last # NoCombination /\ a.degree = last.degree /\ a.direction = last.direction

\* Faulty variant: the do-while loop accepts its first draw.
generateNewScaleDegree_FirstDraw(last, maxDegree) == DrawsOver(maxDegree)

\* The values generateNewScaleDegree can return: the draws its loop accepts.
generateNewScaleDegree(last, maxDegree) ==
    {c \in DrawsOver(maxDegree) : ~SameCombination(c, last)}

CountTrue(seq) == Cardinality({i \in 1..Len(seq) : seq[i]})

\* ----------------------------------------------------------------------
\* Number arithmetic of calculateAccuracy
\* ----------------------------------------------------------------------
\* A Number is an IEEE-754 double: 53 significant bits, results rounded to
\* nearest, ties to even.  A significand is a sequence of digits in base
\* Limb, most significant first: the first digit counts units of 2^exp and is
\* not limited to one Limb, the four digits after it are the 52 fraction bits.
Limb == 2 ^ 13
FractionLimbs == 4

BitLength(n) == CHOOSE b \in 0..31 : 2 ^ b > n /\ (b = 0 \/ 2 ^ (b - 1) <= n)

\* The power of two that brings num / den into [1, 2), den > num > 0 or
\* num = den: the scaled numerator and the exponent.
RECURSIVE Normalise(_, _, _)
Normalise(num, den, exp) ==
    IF num >= den THEN [num |-> num, exp |-> exp]
    ELSE Normalise(2 * num, den, exp - 1)

\* Long division: the next count digits of rem / den and what is left.
RECURSIVE DivLimbs(_, _, _)
DivLimbs(rem, den, count) ==
    IF count = 0 THEN [digits |-> <<>>, rem |-> rem]
    ELSE LET rest == DivLimbs((rem * Limb) % den, den, count - 1)
         IN  [digits |-> <<(rem * Limb) \div den>> \o rest.digits,
              rem |-> rest.rem]

\* digits + carry, the carry entering at the last digit.
RECURSIVE AddCarry(_, _)
AddCarry(digits, carry) ==
    IF Len(digits) = 1 THEN <<digits[1] + carry>>
    ELSE LET low == digits[Len(digits)] + carry
         IN  AddCarry(SubSeq(digits, 1, Len(digits) - 1), low \div Limb)
               \o <<low % Limb>>

\* digits * factor + carry
RECURSIVE MulCarry(_, _, _)
MulCarry(digits, factor, carry) ==
    IF Len(digits) = 1 THEN <<digits[1] * factor + carry>>
    ELSE LET low == digits[Len(digits)] * factor + carry
         IN  MulCarry(SubSeq(digits, 1, Len(digits) - 1), factor, low \div Limb)
               \o <<low % Limb>>

\* The exact significand digits rounded to 53 significant bits.
RoundSignificand(digits) ==
    LET drop == BitLength(digits[1]) - 1
        low == digits[Len(digits)]
        lost == low % (2 ^ drop)
        kept == [digits EXCEPT ![Len(digits)] = low - lost]
        odd == (low \div (2 ^ drop)) % 2 = 1
        up == 2 * lost > 2 ^ drop \/ (2 * lost = 2 ^ drop /\ odd)
    IN  IF up THEN AddCarry(kept, 2 ^ drop) ELSE kept

\* correct / results.length for 0 < correct <= results.length
NumberDivide(num, den) ==
    LET n == Normalise(num, den, 0)
        q == DivLimbs(n.num % den, den, FractionLimbs)
        digits == <<n.num \div den>> \o q.digits
        odd == digits[Len(digits)] % 2 = 1
        up == 2 * q.rem > den \/ (2 * q.rem = den /\ odd)
    IN  [digits |-> IF up THEN AddCarry(digits, 1) ELSE digits, exp |-> n.exp]

\* x * factor for a small integer factor
NumberTimes(x, factor) ==
    [digits |-> RoundSignificand(MulCarry(x.digits, factor, 0)), exp |-> x.exp]

\* Math.round(x) = floor(x + 1/2) for x >= 0 with x.exp <= 0: in units of
\* 2^exp the half is the integer 2^(-exp-1) (1/2 of a unit when exp = 0), and
\* the fraction digits, less than one unit, decide only when exp = 0.
MathRound(x) ==
    IF x.exp = 0
    THEN x.digits[1] + (IF x.digits[2] >= Limb \div 2 THEN 1 ELSE 0)
    ELSE (x.digits[1] + 2 ^ (0 - x.exp - 1)) \div (2 ^ (0 - x.exp))

calculateAccuracy(res) ==
    IF Len(res) = 0 THEN 0
    ELSE IF CountTrue(res) = 0 THEN 0
    ELSE MathRound(NumberTimes(NumberDivide(CountTrue(res), Len(res)), 100))

\* ----------------------------------------------------------------------
\* State
\* ----------------------------------------------------------------------
VARIABLES
    \* useState cells (interval and volume are not recorded: the modelled
    \* code depends only on the fact that they changed)
    currentScaleDegree, isPlaying, selectedKey, mode, isMuted,
    lastCombination, detectedNote, noteStatus, hasFoundCorrect, results,
    \* useRef cells
    hasDetectedFirstNoteRef, everFoundCorrectForCurrentDegree,
    currentDetectedNoteRef, noteDetectionStartTimeRef, isFirstScaleDegree,
    lastCombinationRef, currentStateRef, intervalId, pitchDetectionId,
    currentOscillators, microphoneStream, analyser,
    \* environment: the clock, the armed interval timers, the live
    \* requestAnimationFrame loops, the getUserMedia calls in flight, the
    \* continuation of startPitchDetection queued as a microtask, the alert
    now, armedTimers, loops, pending, microtask, alertShown,
    \* history: entries recorded for the installed target, whether a note was
    \* confirmed since the last start / since the last start or reset, and the
    \* targets completed since the first confirmed note
    entriesForTarget, confirmedSinceStart, confirmedSinceReset,
    completedSinceFirst,
    \* history: a confirmed note had the pitch class expected for the
    \* installed target
    expectedConfirmed,
    \* the do-while loop of generateNewScaleDegree while it is stepped: its
    \* variable newScaleDegree and the place of control ("out" of the
    \* function, in the "body", at the "while" condition)
    loopScaleDegree, loopAt,
    \* the frequencies playChord computes, as semitone offsets from C4, while
    \* the chord is followed
    frequencies,
    \* the autocorrelation search of detectPitch while it is stepped: the
    \* sample rate of the audio context, the loop variable period,
    \* maxCorrelation in thousandths and bestPeriod
    sampleRate, period, maxCorrelation, bestPeriod,
    \* the component is in the tree; the audio context ("none", "running",
    \* "closed"); a stream has been acquired that no ref holds and that has
    \* not been stopped
    mounted, audioContext, strayStream

settingVars == <<selectedKey, mode, isMuted>>
targetVars == <<currentScaleDegree, lastCombination, currentStateRef>>
gateVars == <<currentDetectedNoteRef, noteDetectionStartTimeRef, now,
              hasDetectedFirstNoteRef, isFirstScaleDegree,
              everFoundCorrectForCurrentDegree, hasFoundCorrect, noteStatus,
              detectedNote>>
micVars == <<microphoneStream, analyser, strayStream>>
timerVars == <<intervalId, armedTimers>>
loopVars == <<pitchDetectionId, loops>>
histVars == <<entriesForTarget, confirmedSinceStart, confirmedSinceReset,
              completedSinceFirst, expectedConfirmed>>
drawVars == <<loopScaleDegree, loopAt>>
chordVars == <<frequencies>>
searchVars == <<sampleRate, period, maxCorrelation, bestPeriod>>
lifeVars == <<mounted, audioContext>>
sideVars == <<chordVars, searchVars, lifeVars>>
vars == <<settingVars, targetVars, gateVars, micVars, timerVars, loopVars,
          histVars, drawVars, sideVars, isPlaying, results, lastCombinationRef,
          currentOscillators, pending, microtask, alertShown>>

\* Only differences of Date.now() readings are read (detectPitch compares
\* currentTime - noteDetectionStartTimeRef with the threshold), so the clock
\* is kept relative to the tracked hold: a hold starts at HoldStart and the
\* clock stops once the hold has lasted the threshold.
HoldStart == FrameMs
HoldEnd == HoldStart + DETECTION_DURATION_MS
Clock(t) == IF t > HoldEnd THEN HoldEnd ELSE t

\* The component after its first render and its mount effects, holding the
\* outcome sequence res.  With a backend the audio context has been created;
\* without one the constructor call of the first effect throws and React
\* removes the component.
Constructed(res, backend) ==
    /\ currentScaleDegree = [degree |-> 1, direction |-> "NONE"]
    /\ isPlaying = FALSE
    /\ selectedKey = 0
    /\ mode = "major"
    /\ isMuted = FALSE
    /\ lastCombination = NoCombination
    /\ detectedNote = ""
    /\ noteStatus = "pending"
    /\ hasFoundCorrect = FALSE
    /\ results = res
    /\ hasDetectedFirstNoteRef = FALSE
    /\ everFoundCorrectForCurrentDegree = FALSE
    /\ currentDetectedNoteRef = NoNote
    /\ noteDetectionStartTimeRef = 0
    /\ isFirstScaleDegree = TRUE
    /\ lastCombinationRef = NoCombination
    /\ currentStateRef = [selectedKey |-> 0,
                          currentScaleDegree |-> [degree |-> 1, direction |-> "NONE"],
                          mode |-> "major"]
    /\ intervalId = 0
    /\ pitchDetectionId = FALSE
    /\ currentOscillators = 0
    /\ microphoneStream = FALSE
    /\ analyser = FALSE
    /\ now = HoldStart
    /\ armedTimers = {}
    /\ loops = 0
    /\ pending = [o \in Origins |-> 0]
    /\ microtask = FALSE
    /\ alertShown = FALSE
    /\ entriesForTarget = 0
    /\ confirmedSinceStart = FALSE
    /\ confirmedSinceReset = FALSE
    /\ completedSinceFirst = 0
    /\ expectedConfirmed = FALSE
    /\ loopScaleDegree = NoCombination
    /\ loopAt = "out"
    /\ frequencies = <<>>
    /\ sampleRate = 0
    /\ period = 0
    /\ maxCorrelation = 0
    /\ bestPeriod = 0
    /\ mounted = backend
    /\ audioContext = IF backend THEN "running" ELSE "none"
    /\ strayStream = FALSE

\* The state after the mount effects with an audio backend.
Mounted(res) == Constructed(res, TRUE)

Init == Mounted(<<>>)

\* A render is due: performRandomize has set the target state and React has
\* not rendered the component since.
RenderPending ==
    /\ lastCombinationRef # NoCombination
    /\ \/ currentScaleDegree # lastCombinationRef
       \/ lastCombination # lastCombinationRef

\* No microtask is queued and no alert() blocks the event loop: the next
\* event handler, timer or animation-frame callback can run.
Ready == ~microtask /\ ~alertShown

\* An event handler, a timer or a promise callback reads refs and sets state,
\* and the render it causes commits the pending target with its own state:
\* run while a render is due it acts as it does after Render.  Handlers are
\* taken in the rendered states; detectPitch, which reads currentStateRef and
\* causes no render, is also taken while a render is due.
Settled == Ready /\ ~RenderPending

\* ----------------------------------------------------------------------
\* detectPitch: the confirmation gate
\* ----------------------------------------------------------------------
\* detectPitch is created once (useCallback with no dependencies): the
\* hasFoundCorrect it reads is the one of the first render.
hasFoundCorrectOfDetectPitch == FALSE

\* Faulty variant: any tracked hold counts as long enough.
HeldLongEnough_AnyHold(t) == noteDetectionStartTimeRef # 0

HeldLongEnough(t) ==
    /\ noteDetectionStartTimeRef # 0
    /\ t - noteDetectionStartTimeRef >= DETECTION_DURATION_MS

\* The target in force: the one performRandomize has set last, rendered or
\* not, and before the first start the one of the first render.
InstalledTarget ==
    IF lastCombinationRef = NoCombination THEN currentScaleDegree
    ELSE lastCombinationRef

\* The pitch class expected for the installed target under the selected key
\* and mode.
ExpectedOfInstalled == getExpectedNote(selectedKey, InstalledTarget.degree, mode)

\* Faulty variant: only the first confirmed note of a target sets its status.
ConfirmNote_FirstWins(note) ==
    LET isCorrect == note = getExpectedNote(currentStateRef.selectedKey,
                                            currentStateRef.currentScaleDegree.degree,
                                            currentStateRef.mode)
        first == noteStatus = "pending"
    IN  /\ hasDetectedFirstNoteRef' = TRUE
        /\ isFirstScaleDegree' = IF hasDetectedFirstNoteRef
                                 THEN isFirstScaleDegree ELSE FALSE
        /\ detectedNote' = noteToScaleDegree(note, currentStateRef.selectedKey,
                                             currentStateRef.mode)
        /\ noteStatus' = IF ~first THEN noteStatus
                         ELSE IF isCorrect THEN "correct" ELSE "incorrect"
        /\ hasFoundCorrect' = (hasFoundCorrect \/ (first /\ isCorrect))
        /\ everFoundCorrectForCurrentDegree' =
               (everFoundCorrectForCurrentDegree \/ (first /\ isCorrect))
        /\ confirmedSinceStart' = TRUE
        /\ confirmedSinceReset' = TRUE
        /\ expectedConfirmed' = (expectedConfirmed \/ note = ExpectedOfInstalled)
        /\ UNCHANGED <<currentDetectedNoteRef, noteDetectionStartTimeRef>>

\* Faulty variant: a note counts as correct only for a target without BELOW.
ConfirmNote_DirectionMatters(note) ==
    LET expectedNote == getExpectedNote(currentStateRef.selectedKey,
                                        currentStateRef.currentScaleDegree.degree,
                                        currentStateRef.mode)
        isCorrect == /\ note = expectedNote
                     /\ currentStateRef.currentScaleDegree.direction # "BELOW"
    IN  /\ hasDetectedFirstNoteRef' = TRUE
        /\ isFirstScaleDegree' = IF hasDetectedFirstNoteRef
                                 THEN isFirstScaleDegree ELSE FALSE
        /\ detectedNote' = noteToScaleDegree(note, currentStateRef.selectedKey,
                                             currentStateRef.mode)
        /\ IF isCorrect /\ ~hasFoundCorrectOfDetectPitch
           THEN /\ noteStatus' = "correct"
                /\ hasFoundCorrect' = TRUE
                /\ everFoundCorrectForCurrentDegree' = TRUE
           ELSE /\ noteStatus' = IF ~hasFoundCorrectOfDetectPitch
                                 THEN "incorrect" ELSE noteStatus
                /\ UNCHANGED <<hasFoundCorrect, everFoundCorrectForCurrentDegree>>
        /\ confirmedSinceStart' = TRUE
        /\ confirmedSinceReset' = TRUE
        /\ expectedConfirmed' = (expectedConfirmed \/ note = ExpectedOfInstalled)
        /\ UNCHANGED <<currentDetectedNoteRef, noteDetectionStartTimeRef>>

\* The branch of detectPitch taken once a note has been held long enough.
ConfirmNote(note) ==
    LET expectedNote == getExpectedNote(currentStateRef.selectedKey,
                                        currentStateRef.currentScaleDegree.degree,
                                        currentStateRef.mode)
        isCorrect == note = expectedNote
    IN  /\ hasDetectedFirstNoteRef' = TRUE
        /\ isFirstScaleDegree' = IF hasDetectedFirstNoteRef
                                 THEN isFirstScaleDegree ELSE FALSE
        /\ detectedNote' = noteToScaleDegree(note, currentStateRef.selectedKey,
                                             currentStateRef.mode)
        /\ IF isCorrect /\ ~hasFoundCorrectOfDetectPitch
           THEN /\ noteStatus' = "correct"
                /\ hasFoundCorrect' = TRUE
                /\ everFoundCorrectForCurrentDegree' = TRUE
           ELSE /\ noteStatus' = IF ~hasFoundCorrectOfDetectPitch
                                 THEN "incorrect" ELSE noteStatus
                /\ UNCHANGED <<hasFoundCorrect, everFoundCorrectForCurrentDegree>>
        /\ confirmedSinceStart' = TRUE
        /\ confirmedSinceReset' = TRUE
        /\ expectedConfirmed' = (expectedConfirmed \/ note = ExpectedOfInstalled)
        /\ UNCHANGED <<currentDetectedNoteRef, noteDetectionStartTimeRef>>

\* detectPitch on the estimate est, read at time t; hasAnalyser is
\* analyser.current at the call.
detectPitch(est, hasAnalyser, t) ==
    IF ~hasAnalyser
    THEN UNCHANGED <<gateVars, confirmedSinceStart, confirmedSinceReset,
                     expectedConfirmed>>
    ELSE IF est # NoPitch
    THEN LET note == frequencyToNote(est)
         IN  IF currentDetectedNoteRef = note
             THEN /\ now' = t
                  /\ IF HeldLongEnough(t)
                     THEN ConfirmNote(note)
                     ELSE UNCHANGED <<currentDetectedNoteRef,
                                      noteDetectionStartTimeRef,
                                      hasDetectedFirstNoteRef, isFirstScaleDegree,
                                      everFoundCorrectForCurrentDegree,
                                      hasFoundCorrect, noteStatus, detectedNote,
                                      confirmedSinceStart, confirmedSinceReset,
                                      expectedConfirmed>>
             ELSE /\ currentDetectedNoteRef' = note
                  /\ noteDetectionStartTimeRef' = HoldStart
                  /\ now' = HoldStart
                  /\ UNCHANGED <<hasDetectedFirstNoteRef, isFirstScaleDegree,
                                 everFoundCorrectForCurrentDegree, hasFoundCorrect,
                                 noteStatus, detectedNote, confirmedSinceStart,
                                 confirmedSinceReset, expectedConfirmed>>
    ELSE /\ currentDetectedNoteRef' = NoNote
         /\ noteDetectionStartTimeRef' = 0
         /\ now' = HoldStart
         /\ IF ~hasFoundCorrectOfDetectPitch
            THEN detectedNote' = "" /\ noteStatus' = "pending"
            ELSE UNCHANGED <<detectedNote, noteStatus>>
         /\ UNCHANGED <<hasDetectedFirstNoteRef, isFirstScaleDegree,
                        everFoundCorrectForCurrentDegree, hasFoundCorrect,
                        confirmedSinceStart, confirmedSinceReset, expectedConfirmed>>

\* One requestAnimationFrame callback of a running detect loop, a frame
\* period after the previous one; a callback that runs while a render is due
\* runs before any time has passed, as the render is done within the frame.
FrameTime == IF RenderPending THEN now ELSE Clock(now + FrameMs)

Frame(est) ==
    /\ mounted
    /\ UNCHANGED <<drawVars, sideVars>>
    /\ Ready
    /\ loops >= 1
    /\ detectPitch(est, analyser, FrameTime)
    /\ pitchDetectionId' = TRUE
    /\ UNCHANGED <<settingVars, targetVars, micVars, timerVars, loops,
                   entriesForTarget, completedSinceFirst, isPlaying, results,
                   lastCombinationRef, currentOscillators, pending,
                   microtask, alertShown>>

\* The render after performRandomize: the component sees the new target and
\* the effect on [selectedKey, currentScaleDegree, mode] refreshes
\* currentStateRef.
Render ==
    /\ mounted
    /\ UNCHANGED <<drawVars, sideVars>>
    /\ Ready
    /\ RenderPending
    /\ currentScaleDegree' = lastCombinationRef
    /\ lastCombination' = lastCombinationRef
    /\ currentStateRef' = [selectedKey |-> selectedKey,
                           currentScaleDegree |-> lastCombinationRef,
                           mode |-> mode]
    /\ UNCHANGED <<settingVars, gateVars, micVars, timerVars, loopVars, histVars,
                   isPlaying, results, lastCombinationRef, currentOscillators,
                   pending, microtask, alertShown>>

\* ----------------------------------------------------------------------
\* performRandomize and the auto-randomization effect
\* ----------------------------------------------------------------------
\* The entry performRandomize records for the target it supersedes.
RecordedByRandomize(res, isFirst, hasFirst, ever) ==
    IF ~isFirst /\ hasFirst THEN Append(res, ever) ELSE res

\* Faulty variant: the effect records without asking for a first confirmed note.
RecordedByStop_Ungated(res, lastComb, hasFirst, ever) ==
    IF lastComb # NoCombination THEN Append(res, ever) ELSE res

\* The entry the effect records when it runs with isPlaying false.
RecordedByStop(res, lastComb, hasFirst, ever) ==
    IF lastComb # NoCombination /\ hasFirst THEN Append(res, ever) ELSE res

\* stopChord: every oscillator of currentOscillators is stopped and the list
\* emptied; the number of oscillators left in it.
stopChord(oscillators) == 0

\* Faulty variant: the new partials are started over the sounding ones.
playChord_NoStop(oscillators, muted) ==
    IF muted THEN oscillators ELSE oscillators + OscillatorsPerChord

\* playChord: nothing when muted, else the previous oscillators are stopped
\* and the partials of the three chord tones started.
playChord(oscillators, muted) ==
    IF muted THEN oscillators ELSE stopChord(oscillators) + OscillatorsPerChord

\* clearInterval(intervalId.current)
ClearedTimers == IF intervalId # 0 THEN armedTimers \ {intervalId} ELSE armedTimers

NewTimerId(timers) == CHOOSE n \in 1..(Cardinality(timers) + 1) : n \notin timers

\* The live loops left by stopPitchDetection.
LoopsAfterStop == IF pitchDetectionId THEN loops - 1 ELSE loops

\* performRandomize, with the values the refs hold when it is called.
performRandomize(res, isFirst, hasFirst, ever, oscillators) ==
    /\ results' = RecordedByRandomize(res, isFirst, hasFirst, ever)
    /\ Len(results') <= MaxResults
    /\ \E newScaleDegree \in generateNewScaleDegree(lastCombinationRef, MaxDegree) :
          lastCombinationRef' = newScaleDegree
    /\ detectedNote' = ""
    /\ noteStatus' = "pending"
    /\ hasFoundCorrect' = FALSE
    /\ everFoundCorrectForCurrentDegree' = FALSE
    /\ currentOscillators' = playChord(oscillators, isMuted)
    /\ entriesForTarget' = 0
    /\ expectedConfirmed' = FALSE

\* The interval timer fires.
Tick ==
    /\ mounted
    /\ UNCHANGED <<drawVars, sideVars>>
    /\ Settled
    /\ armedTimers # {}
    /\ performRandomize(results, isFirstScaleDegree, hasDetectedFirstNoteRef,
                        everFoundCorrectForCurrentDegree, currentOscillators)
    /\ completedSinceFirst' = IF confirmedSinceReset
                              THEN completedSinceFirst + 1 ELSE completedSinceFirst
    /\ UNCHANGED <<settingVars, targetVars, micVars, timerVars, loopVars,
                   currentDetectedNoteRef, noteDetectionStartTimeRef, now,
                   hasDetectedFirstNoteRef, isFirstScaleDegree,
                   confirmedSinceStart, confirmedSinceReset, isPlaying,
                   pending, microtask, alertShown>>

\* Faulty variant: the effect stops the engine without recording the open target.
StoppedEffect_NoRecord ==
    /\ results' = results
    /\ Len(results') <= MaxResults
    /\ entriesForTarget' = IF Len(results') > Len(results) THEN 1 ELSE entriesForTarget
    /\ completedSinceFirst' = IF isPlaying /\ confirmedSinceReset
                              THEN completedSinceFirst + 1 ELSE completedSinceFirst
    /\ armedTimers' = ClearedTimers
    /\ currentOscillators' = 0
    /\ loops' = LoopsAfterStop
    /\ pitchDetectionId' = FALSE
    /\ detectedNote' = ""
    /\ noteStatus' = "pending"
    /\ UNCHANGED <<intervalId, currentDetectedNoteRef, noteDetectionStartTimeRef,
                   now, hasDetectedFirstNoteRef, isFirstScaleDegree,
                   everFoundCorrectForCurrentDegree, hasFoundCorrect,
                   confirmedSinceStart, confirmedSinceReset, expectedConfirmed,
                   lastCombinationRef, micVars, pending, microtask>>

\* The effect on [isPlaying, interval, selectedKey, mode, volume, isMuted],
\* cleanup of its previous run included, when it runs with isPlaying false.
StoppedEffect ==
    /\ results' = RecordedByStop(results, lastCombination,
                                 hasDetectedFirstNoteRef,
                                 everFoundCorrectForCurrentDegree)
    /\ Len(results') <= MaxResults
    /\ entriesForTarget' = IF Len(results') > Len(results) THEN 1 ELSE entriesForTarget
    /\ completedSinceFirst' = IF isPlaying /\ confirmedSinceReset
                              THEN completedSinceFirst + 1 ELSE completedSinceFirst
    /\ armedTimers' = ClearedTimers
    /\ currentOscillators' = 0
    /\ loops' = LoopsAfterStop
    /\ pitchDetectionId' = FALSE
    /\ detectedNote' = ""
    /\ noteStatus' = "pending"
    /\ UNCHANGED <<intervalId, currentDetectedNoteRef, noteDetectionStartTimeRef,
                   now, hasDetectedFirstNoteRef, isFirstScaleDegree,
                   everFoundCorrectForCurrentDegree, hasFoundCorrect,
                   confirmedSinceStart, confirmedSinceReset, expectedConfirmed,
                   lastCombinationRef, micVars, pending, microtask>>

\* Faulty variant: the start handler leaves the outcome sequence of the last session.
PlayingEffect_NoReset(stream, pend) ==
    /\ IF stream
       THEN microtask' = TRUE /\ pending' = pend
       ELSE /\ pend["detect"] < MaxPending
            /\ pending' = [pend EXCEPT !["detect"] = @ + 1]
            /\ microtask' = FALSE
    /\ performRandomize(results, TRUE, FALSE, FALSE, 0)
    /\ intervalId' = NewTimerId(ClearedTimers)
    /\ armedTimers' = ClearedTimers \cup {NewTimerId(ClearedTimers)}
    /\ loops' = LoopsAfterStop
    /\ pitchDetectionId' = FALSE

\* The same effect when it runs with isPlaying true, after the reset of the
\* start handler; stream is microphoneStream.current and pend the calls in
\* flight at that time.
PlayingEffect(stream, pend) ==
    /\ IF stream
       THEN microtask' = TRUE /\ pending' = pend
       ELSE /\ pend["detect"] < MaxPending
            /\ pending' = [pend EXCEPT !["detect"] = @ + 1]
            /\ microtask' = FALSE
    /\ performRandomize(<<>>, TRUE, FALSE, FALSE, 0)
    /\ intervalId' = NewTimerId(ClearedTimers)
    /\ armedTimers' = ClearedTimers \cup {NewTimerId(ClearedTimers)}
    /\ loops' = LoopsAfterStop
    /\ pitchDetectionId' = FALSE

\* ----------------------------------------------------------------------
\* Start, stop, settings, reset
\* ----------------------------------------------------------------------
\* The branch of both start handlers taken once the microphone is ready,
\* with the render and the effect that setIsPlaying(true) causes.
DoStart(stream, pend) ==
    /\ isPlaying' = TRUE
    /\ hasDetectedFirstNoteRef' = FALSE
    /\ isFirstScaleDegree' = TRUE
    /\ currentDetectedNoteRef' = NoNote
    /\ noteDetectionStartTimeRef' = 0
    /\ now' = HoldStart
    /\ confirmedSinceStart' = FALSE
    /\ confirmedSinceReset' = FALSE
    /\ completedSinceFirst' = 0
    /\ IF isPlaying
       THEN /\ results' = <<>>
            /\ everFoundCorrectForCurrentDegree' = FALSE
            /\ hasFoundCorrect' = FALSE
            /\ detectedNote' = ""
            /\ noteStatus' = "pending"
            /\ pending' = pend
            /\ UNCHANGED <<timerVars, loopVars, lastCombinationRef,
                           currentOscillators, microtask, entriesForTarget,
                           expectedConfirmed>>
       ELSE PlayingEffect(stream, pend)
    /\ UNCHANGED <<settingVars, targetVars>>

\* Space bar while stopped: handleKeyPress up to and, when the stream is
\* already held, past `await initializeMicrophone()`.
StartKey ==
    /\ mounted
    /\ UNCHANGED <<drawVars, sideVars>>
    /\ Settled
    /\ ~isPlaying
    /\ IF microphoneStream
       THEN DoStart(TRUE, pending) /\ UNCHANGED <<micVars, alertShown>>
       ELSE /\ pending["key"] < MaxPending
            /\ pending' = [pending EXCEPT !["key"] = @ + 1]
            /\ UNCHANGED <<settingVars, targetVars, gateVars, micVars, timerVars,
                           loopVars, histVars, isPlaying, results,
                           lastCombinationRef, currentOscillators, microtask,
                           alertShown>>

\* Start button while stopped: onClick up to `await getUserMedia`.
StartButton ==
    /\ mounted
    /\ UNCHANGED <<drawVars, sideVars>>
    /\ Settled
    /\ ~isPlaying
    /\ pending["button"] < MaxPending
    /\ pending' = [pending EXCEPT !["button"] = @ + 1]
    /\ UNCHANGED <<settingVars, targetVars, gateVars, micVars, timerVars,
                   loopVars, histVars, isPlaying, results, lastCombinationRef,
                   currentOscillators, microtask, alertShown>>

\* detect() of startPitchDetection: the first detectPitch call and the first
\* requestAnimationFrame of a new loop.
StartLoop(est) ==
    /\ loops < MaxLoops
    /\ detectPitch(est, TRUE, now)
    /\ loops' = loops + 1
    /\ pitchDetectionId' = TRUE
    /\ microtask' = FALSE
    /\ UNCHANGED <<settingVars, targetVars, timerVars, entriesForTarget,
                   completedSinceFirst, isPlaying, results, lastCombinationRef,
                   currentOscillators, alertShown>>

\* startPitchDetection resumes right after the effect: the stream was held.
DetectStart(est) ==
    /\ mounted
    /\ UNCHANGED <<drawVars, sideVars>>
    /\ microtask
    /\ StartLoop(est)
    /\ UNCHANGED <<micVars, pending>>

\* getUserMedia resolves for the call of origin o.
MicGranted(o, est) ==
    /\ mounted
    /\ UNCHANGED <<drawVars, sideVars>>
    /\ Settled
    /\ pending[o] > 0
    /\ LET pend == [pending EXCEPT ![o] = @ - 1]
       IN  CASE o = "key" ->
                  /\ microphoneStream' = TRUE
                  /\ analyser' = TRUE
                  /\ strayStream' = (strayStream \/ microphoneStream)
                  /\ DoStart(TRUE, pend)
                  /\ UNCHANGED alertShown
             [] o = "button" ->
                  /\ strayStream' = TRUE
                  /\ DoStart(microphoneStream, pend)
                  /\ UNCHANGED <<microphoneStream, analyser, alertShown>>
             [] o = "detect" ->
                  /\ microphoneStream' = TRUE
                  /\ analyser' = TRUE
                  /\ strayStream' = (strayStream \/ microphoneStream)
                  /\ pending' = pend
                  /\ StartLoop(est)

\* getUserMedia rejects for the call of origin o: the start handlers alert,
\* startPitchDetection gives up.
MicDenied(o) ==
    /\ mounted
    /\ UNCHANGED <<drawVars, sideVars>>
    /\ Settled
    /\ pending[o] > 0
    /\ pending' = [pending EXCEPT ![o] = @ - 1]
    /\ alertShown' = (o # "detect")
    /\ UNCHANGED <<settingVars, targetVars, gateVars, micVars, timerVars,
                   loopVars, histVars, isPlaying, results, lastCombinationRef,
                   currentOscillators, microtask>>

\* The user closes the alert.
DismissAlert ==
    /\ UNCHANGED <<drawVars, sideVars>>
    /\ alertShown
    /\ alertShown' = FALSE
    /\ UNCHANGED <<settingVars, targetVars, gateVars, micVars, timerVars,
                   loopVars, histVars, isPlaying, results, lastCombinationRef,
                   currentOscillators, pending, microtask>>

\* Space bar or Stop button while playing, or the tab is hidden.
Stop ==
    /\ mounted
    /\ UNCHANGED <<drawVars, sideVars>>
    /\ Settled
    /\ isPlaying
    /\ isPlaying' = FALSE
    /\ StoppedEffect
    /\ UNCHANGED <<settingVars, targetVars, alertShown>>

\* A settings control: the setter of the setting, then setIsPlaying(false).
\* The effect runs when the setting (changed) or isPlaying has changed.
ChangeSetting(changed) ==
    /\ mounted
    /\ UNCHANGED <<drawVars, sideVars>>
    /\ Settled
    /\ changed \/ isPlaying
    /\ isPlaying' = FALSE
    /\ StoppedEffect
    /\ currentStateRef' = [selectedKey |-> selectedKey',
                           currentScaleDegree |-> currentScaleDegree,
                           mode |-> mode']
    /\ UNCHANGED <<currentScaleDegree, lastCombination, alertShown>>

SetKey(k) ==
    /\ k # selectedKey
    /\ selectedKey' = k
    /\ UNCHANGED <<mode, isMuted>>
    /\ ChangeSetting(TRUE)

SetMode(m) ==
    /\ mode' = m
    /\ UNCHANGED <<selectedKey, isMuted>>
    /\ ChangeSetting(m # mode)

SetInterval ==
    /\ UNCHANGED <<selectedKey, mode, isMuted>>
    /\ ChangeSetting(TRUE)

SetVolume ==
    /\ UNCHANGED <<selectedKey, mode, isMuted>>
    /\ ChangeSetting(TRUE)

SetMuted ==
    /\ isMuted' = ~isMuted
    /\ UNCHANGED <<selectedKey, mode>>
    /\ ChangeSetting(TRUE)

\* Faulty variant: Reset empties the sequence and keeps the first-note flags.
ResetResults_KeepsFirstNote ==
    /\ mounted
    /\ UNCHANGED <<drawVars, sideVars>>
    /\ Settled
    /\ Len(results) > 0
    /\ results' = <<>>
    /\ hasDetectedFirstNoteRef' = hasDetectedFirstNoteRef
    /\ everFoundCorrectForCurrentDegree' = FALSE
    /\ isFirstScaleDegree' = isFirstScaleDegree
    /\ currentDetectedNoteRef' = NoNote
    /\ noteDetectionStartTimeRef' = 0
    /\ now' = HoldStart
    /\ entriesForTarget' = 0
    /\ confirmedSinceReset' = FALSE
    /\ completedSinceFirst' = 0
    /\ UNCHANGED <<settingVars, targetVars, micVars, timerVars, loopVars,
                   hasFoundCorrect, noteStatus, detectedNote, confirmedSinceStart,
                   expectedConfirmed, isPlaying, lastCombinationRef,
                   currentOscillators,
                   pending, microtask, alertShown>>

\* The Reset button of the results section.
ResetResults ==
    /\ mounted
    /\ UNCHANGED <<drawVars, sideVars>>
    /\ Settled
    /\ Len(results) > 0
    /\ results' = <<>>
    /\ hasDetectedFirstNoteRef' = FALSE
    /\ everFoundCorrectForCurrentDegree' = FALSE
    /\ isFirstScaleDegree' = TRUE
    /\ currentDetectedNoteRef' = NoNote
    /\ noteDetectionStartTimeRef' = 0
    /\ now' = HoldStart
    /\ entriesForTarget' = 0
    /\ confirmedSinceReset' = FALSE
    /\ completedSinceFirst' = 0
    /\ UNCHANGED <<settingVars, targetVars, micVars, timerVars, loopVars,
                   hasFoundCorrect, noteStatus, detectedNote, confirmedSinceStart,
                   expectedConfirmed, isPlaying, lastCombinationRef,
                   currentOscillators,
                   pending, microtask, alertShown>>

Next ==
    \/ StartKey
    \/ StartButton
    \/ \E o \in Origins, est \in Estimates : MicGranted(o, est)
    \/ \E o \in Origins : MicDenied(o)
    \/ DismissAlert
    \/ \E est \in Estimates : DetectStart(est)
    \/ \E est \in Estimates : Frame(est)
    \/ Render
    \/ Tick
    \/ Stop
    \/ \E k \in Keys : SetKey(k)
    \/ \E m \in Modes : SetMode(m)
    \/ SetInterval
    \/ SetVolume
    \/ SetMuted
    \/ ResetResults

Spec == Init /\ [][Next]_vars

TypeOK ==
    /\ currentScaleDegree \in DrawsOver(NumDegrees)
    /\ noteStatus \in {"pending", "correct", "incorrect"}
    /\ currentDetectedNoteRef \in {NoNote} \cup (0..(NumNotes - 1))
    /\ Len(results) <= MaxResults
    /\ loops \in 0..MaxLoops
    /\ mounted \in BOOLEAN
    /\ strayStream \in BOOLEAN
    /\ audioContext \in {"none", "running", "closed"}
    /\ bestPeriod \in Nat

\* ----------------------------------------------------------------------
\* Properties of the session
\* ----------------------------------------------------------------------
\* A step that starts the engine: Stopped before, Running after.
Starts == ~isPlaying /\ isPlaying'

\* A step that stops the engine.
Stops == isPlaying /\ ~isPlaying'

\* A step that installs a target: a tick of the timer or the start.
Installs == Tick \/ Starts

\* C1: each installed target contributes at most one entry to results, so an
\* entry is appended only while the installed target has none.
C1_OneEntryPerTarget ==
    [][Len(results') > Len(results) => entriesForTarget = 0]_vars

\* C2: once the status of the installed target has become correct (its latch
\* is set), no estimation cycle sets the status to incorrect before the next
\* target is installed.
C2_CorrectStaysCorrect ==
    everFoundCorrectForCurrentDegree => noteStatus # "incorrect"

\* C3: the length of results is the number of targets completed (ended by a
\* tick or by stop) since the first confirmed note.
C3_LengthIsCompletedTargets == Len(results) = completedSinceFirst

\* C4: a newly installed target differs in degree or in direction from the
\* target installed before it.
C4_NoImmediateRepeat ==
    [][Installs => /\ lastCombinationRef' \in DrawsOver(MaxDegree)
                   /\ lastCombinationRef' # lastCombinationRef]_vars

\* C4 witness: the target {1, no direction} has been rendered and the tick
\* after it has installed the next target.
C4_Witness ==
    /\ isPlaying
    /\ lastCombination = [degree |-> 1, direction |-> "NONE"]
    /\ lastCombinationRef # NoCombination
    /\ lastCombinationRef # lastCombination

\* C5: when a microphone acquisition made for a start request fails, the
\* failure is reported and the session is not Running.
C5_FailedAcquisitionReported ==
    [][\A o \in Origins : MicDenied(o) => alertShown' /\ ~isPlaying']_vars

\* The part of C5 that holds: when the acquisition made by a start handler
\* itself fails, the alert is raised and isPlaying, the target, the timer and
\* results are as before.
HandlerFailureStartsNothing ==
    [][\A o \in {"key", "button"} :
          MicDenied(o) => /\ alertShown'
                          /\ UNCHANGED <<isPlaying, lastCombinationRef,
                                         currentScaleDegree, armedTimers,
                                         intervalId, results>>]_vars

\* C6: results is empty as long as no note has been confirmed since the last
\* start or reset.
C6_NoEntryBeforeFirstNote == ~confirmedSinceReset => results = <<>>

\* C6 witness: a session was stopped after its target was rendered, a pitch
\* was tracked in it and no note was confirmed.
C6_Witness ==
    /\ ~isPlaying
    /\ ~confirmedSinceReset
    /\ ~hasDetectedFirstNoteRef
    /\ lastCombination # NoCombination
    /\ currentDetectedNoteRef # NoNote
    /\ results = <<>>

\* An estimation cycle on the estimate est that finds the tracked note held
\* for the detection duration.
ConfirmingCycle(est) ==
    /\ currentDetectedNoteRef = frequencyToNote(est)
    /\ \/ Frame(est) /\ analyser /\ HeldLongEnough(FrameTime)
       \/ (DetectStart(est) \/ MicGranted("detect", est)) /\ HeldLongEnough(now)

C9_StartClearsAndInstalls ==
    [][Starts => /\ results' = <<>>
                 /\ ~hasDetectedFirstNoteRef'
                 /\ isFirstScaleDegree'
                 /\ ~everFoundCorrectForCurrentDegree'
                 /\ ~hasFoundCorrect'
                 /\ currentDetectedNoteRef' = NoNote
                 /\ noteDetectionStartTimeRef' = 0
                 /\ lastCombinationRef' \in DrawsOver(MaxDegree)
                 /\ lastCombinationRef' # lastCombinationRef
                 /\ armedTimers' = {intervalId'}
                 /\ intervalId' # 0]_vars

\* C9 witness: a second session has just started, its target installed and
\* not yet rendered.
C9_Witness ==
    /\ isPlaying
    /\ microtask
    /\ lastCombination # NoCombination
    /\ lastCombinationRef # lastCombination
    /\ results = <<>>

\* ----------------------------------------------------------------------
\* The accuracy of an outcome sequence
\* ----------------------------------------------------------------------
MaxShown == 40       \* longest outcome sequence whose accuracy is computed

\* calculateAccuracy reads only the length of results and the number of true
\* entries: the sequences with the true entries first stand for all.
Outcomes(correct, total) == [i \in 1..total |-> i <= correct]

InitAccuracy ==
    \E total \in 0..MaxShown : \E correct \in 0..total :
        Mounted(Outcomes(correct, total))

NextAccuracy == ResetResults

SpecAccuracy == InitAccuracy /\ [][NextAccuracy]_vars

\* The quotient num / den rounded to the nearest integer, a half up.
RoundHalfUp(num, den) == (2 * num + den) \div (2 * den)

\* C10: the accuracy is 0 for an empty sequence and otherwise
\* 100 * (number of true entries) / length rounded to the nearest integer, a
\* half rounded up.
C10_AccuracyIsRoundedPercentage ==
    calculateAccuracy(results) =
        IF Len(results) = 0 THEN 0
        ELSE RoundHalfUp(100 * CountTrue(results), Len(results))

\* ----------------------------------------------------------------------
\* The note functions over every key, mode, degree and tone
\* ----------------------------------------------------------------------
OctavesBelow == 2    \* octaves of tones below A4
OctavesAbove == 2    \* octaves of tones from A4 upwards

\* Rounded semitone offsets from A4 of the tones played.
ToneOffsets == (0 - 12 * OctavesBelow)..(12 * OctavesAbove - 1)

\* A running session in key k and mode m listening for the target t: the
\* microphone is open, one loop runs and no note has been tracked yet.
Listening(k, m, t) ==
    /\ currentScaleDegree = t
    /\ isPlaying = TRUE
    /\ selectedKey = k
    /\ mode = m
    /\ isMuted = FALSE
    /\ lastCombination = t
    /\ detectedNote = ""
    /\ noteStatus = "pending"
    /\ hasFoundCorrect = FALSE
    /\ results = <<>>
    /\ hasDetectedFirstNoteRef = FALSE
    /\ everFoundCorrectForCurrentDegree = FALSE
    /\ currentDetectedNoteRef = NoNote
    /\ noteDetectionStartTimeRef = 0
    /\ isFirstScaleDegree = TRUE
    /\ lastCombinationRef = t
    /\ currentStateRef = [selectedKey |-> k, currentScaleDegree |-> t, mode |-> m]
    /\ intervalId = 1
    /\ pitchDetectionId = TRUE
    /\ currentOscillators = OscillatorsPerChord
    /\ microphoneStream = TRUE
    /\ analyser = TRUE
    /\ now = HoldStart
    /\ armedTimers = {1}
    /\ loops = 1
    /\ pending = [o \in Origins |-> 0]
    /\ microtask = FALSE
    /\ alertShown = FALSE
    /\ entriesForTarget = 0
    /\ confirmedSinceStart = FALSE
    /\ confirmedSinceReset = FALSE
    /\ completedSinceFirst = 0
    /\ expectedConfirmed = FALSE
    /\ loopScaleDegree = NoCombination
    /\ loopAt = "out"
    /\ frequencies = <<>>
    /\ sampleRate = 0
    /\ period = 0
    /\ maxCorrelation = 0
    /\ bestPeriod = 0
    /\ mounted = TRUE
    /\ audioContext = "running"
    /\ strayStream = FALSE

InitNotes ==
    \E k \in 0..(NumNotes - 1) : \E m \in Modes : \E t \in DrawsOver(NumDegrees) :
        Listening(k, m, t)

\* The estimation cycles up to the first confirmed note.
NextNotes ==
    \E est \in ToneOffsets \cup {NoPitch} : ~hasDetectedFirstNoteRef /\ Frame(est)

SpecNotes == InitNotes /\ [][NextNotes]_vars

\* The interval tables as the scale definitions give them.
MajorScale == <<0, 2, 4, 5, 7, 9, 11>>
NaturalMinorScale == <<0, 2, 3, 5, 7, 8, 10>>
ScaleOf(m) == IF m = "major" THEN MajorScale ELSE NaturalMinorScale

\* C11: in every key, mode and degree the expected pitch class is
\* (keyIndex + interval of the degree in the mode) mod 12, with the major
\* intervals 0,2,4,5,7,9,11 and the natural-minor intervals 0,2,3,5,7,8,10,
\* and it is an index of the 12-name table.
C11_ExpectedNoteFollowsScale ==
    LET expected == getExpectedNote(selectedKey, currentScaleDegree.degree, mode)
    IN  /\ expected = (selectedKey + ScaleOf(mode)[currentScaleDegree.degree]) % 12
        /\ expected \in 0..11

\* A note confirmed as correct in B minor on degree 6 (G, index 7).
C11_Witness ==
    /\ selectedKey = 11 /\ mode = "minor" /\ currentScaleDegree.degree = 6
    /\ noteStatus = "correct"
    /\ currentDetectedNoteRef = 7

\* C12: in every key, mode and degree, a tone whose semitone offset from A4
\* is congruent to (expected index - 9) modulo 12, in any octave below or
\* above A4, is classified by frequencyToNote as the pitch class that
\* getExpectedNote returns.
C12_ToneOnExpectedClassMatches ==
    LET expected == getExpectedNote(selectedKey, currentScaleDegree.degree, mode)
    IN  \A est \in ToneOffsets :
            (est - (expected - 9)) % 12 = 0 => frequencyToNote(est) = expected

\* The fourth degree of F major (A#, index 10) has been played and confirmed.
C12_Witness ==
    /\ selectedKey = 5 /\ mode = "major" /\ currentScaleDegree.degree = 4
    /\ hasDetectedFirstNoteRef
    /\ noteStatus = "correct"
    /\ currentDetectedNoteRef = 10

\* C13: for every semitone offset from A4, positive, zero or negative, the
\* pitch class an estimation cycle tracks is an index in 0..11 congruent to
\* 9 + offset modulo 12.
C13_OffsetsFoldIntoTable ==
    [][\A est \in ToneOffsets :
          Frame(est) =>
              /\ currentDetectedNoteRef' \in 0..11
              /\ (currentDetectedNoteRef' - (9 + est)) % 12 = 0]_vars

\* B (index 11) is tracked: the tones 14 and 10 semitones below A4 and 2 and
\* 14 above it fold into it.
C13_Witness ==
    /\ currentDetectedNoteRef = 11
    /\ noteDetectionStartTimeRef # 0
    /\ ~hasDetectedFirstNoteRef

\* C14: in minor mode, in every key, the pitch class 11 semitones above the
\* key is labelled "7" (never "b1"), by noteToScaleDegree and on the display
\* once that pitch class has been confirmed.
C14_MinorLeadingToneIsSeven ==
    LET leading == (selectedKey + 11) % 12
    IN  mode = "minor" =>
            /\ noteToScaleDegree(leading, selectedKey, mode) = "7"
            /\ (hasDetectedFirstNoteRef /\ currentDetectedNoteRef = leading)
                   => detectedNote = "7"

\* G# (index 8) has been confirmed in A minor.
C14_Witness ==
    /\ selectedKey = 9 /\ mode = "minor"
    /\ hasDetectedFirstNoteRef
    /\ currentDetectedNoteRef = 8
    /\ detectedNote = "7"

\* ----------------------------------------------------------------------
\* The session: chord, loops, confirmation gate
\* ----------------------------------------------------------------------
\* C15: the sources of an earlier chord are stopped before those of a new
\* chord start: after any sequence of renders and stops the sounding sources
\* are none or the 9 partials of the chord rendered last.
C15_OneChordSounds ==
    currentOscillators = 0 \/ currentOscillators = OscillatorsPerChord

\* A tick of a running session has rendered a chord over the one before it.
C15_Witness ==
    /\ isPlaying
    /\ Len(results) >= 1
    /\ ~isMuted
    /\ currentOscillators = OscillatorsPerChord

\* C16: while the session is stopped no interval timer is armed and no
\* estimation loop is scheduled, whatever the interleaving of start, stop and
\* the completion of the microphone acquisition.
C16_StoppedIsQuiet ==
    ~isPlaying => armedTimers = {} /\ loops = 0

\* The tracked hold has already been read at or past the threshold: a cycle
\* has confirmed it.
HoldConfirmed == currentDetectedNoteRef # NoNote /\ HeldLongEnough(now)

\* C17: one continuous hold is confirmed once: no cycle evaluates and sets
\* the status for a hold that an earlier cycle has already confirmed.
C17_OneConfirmationPerHold ==
    [][\A est \in Semitones : ~(HoldConfirmed /\ ConfirmingCycle(est))]_vars

\* An estimation cycle reading the estimate est at time t.
CycleAt(est, t) ==
    \/ t = FrameTime /\ analyser /\ Frame(est)
    \/ t = now /\ (DetectStart(est) \/ MicGranted("detect", est))

\* The step reports a confirmed note: a status of correct or incorrect, a
\* label, or a scoring flag is set.
Reports ==
    \/ noteStatus' # noteStatus /\ noteStatus' # "pending"
    \/ detectedNote' # detectedNote /\ detectedNote' # ""
    \/ ~hasDetectedFirstNoteRef /\ hasDetectedFirstNoteRef'
    \/ ~everFoundCorrectForCurrentDegree /\ everFoundCorrectForCurrentDegree'
    \/ ~hasFoundCorrect /\ hasFoundCorrect'

\* C18: a note is reported only by a cycle that hears the tracked candidate
\* with at least 150 ms elapsed since the cycle that began to track it; a
\* no-pitch cycle clears the candidate and a cycle hearing another pitch
\* class restarts the hold, so no such cycle lies within the hold; a cycle
\* hearing the candidate below 150 ms keeps tracking and changes neither the
\* status, the label nor the scoring flags.
C18_ConfirmedOnlyAfterFullHold ==
    [][/\ Reports =>
            /\ currentDetectedNoteRef # NoNote
            /\ currentDetectedNoteRef' = currentDetectedNoteRef
            /\ noteDetectionStartTimeRef # 0
            /\ noteDetectionStartTimeRef' = noteDetectionStartTimeRef
            /\ now' - noteDetectionStartTimeRef >= DETECTION_DURATION_MS
            /\ \E est \in Semitones :
                  /\ frequencyToNote(est) = currentDetectedNoteRef
                  /\ CycleAt(est, now')
       /\ \A t \in {now, FrameTime} :
            /\ CycleAt(NoPitch, t) =>
                  currentDetectedNoteRef' = NoNote /\ noteDetectionStartTimeRef' = 0
            /\ \A est \in Semitones :
                  CycleAt(est, t) =>
                      IF frequencyToNote(est) # currentDetectedNoteRef
                      THEN /\ currentDetectedNoteRef' = frequencyToNote(est)
                           /\ noteDetectionStartTimeRef' # 0
                           /\ now' - noteDetectionStartTimeRef' = 0
                           /\ ~Reports
                      ELSE /\ UNCHANGED <<currentDetectedNoteRef,
                                          noteDetectionStartTimeRef>>
                           /\ t - noteDetectionStartTimeRef < DETECTION_DURATION_MS
                                 => UNCHANGED <<noteStatus, detectedNote,
                                                hasFoundCorrect,
                                                everFoundCorrectForCurrentDegree,
                                                hasDetectedFirstNoteRef,
                                                isFirstScaleDegree>>]_vars

\* A wrong note has been held 150 ms and reported, and the candidate that
\* follows it is tracked below the threshold with the report still shown.
C18_Witness ==
    /\ noteStatus = "incorrect"
    /\ hasDetectedFirstNoteRef
    /\ currentDetectedNoteRef # NoNote
    /\ noteDetectionStartTimeRef # 0
    /\ now - noteDetectionStartTimeRef < DETECTION_DURATION_MS
    /\ now - noteDetectionStartTimeRef > 0

\* C19: a timer tick resets the confirmation gate together with the locked
\* flag: after the tick no candidate is tracked and no hold is running, so a
\* note held across the tick needs a full 150 ms again.
C19_TickResetsGate ==
    [][Tick => /\ ~hasFoundCorrect'
               /\ ~everFoundCorrectForCurrentDegree'
               /\ currentDetectedNoteRef' = NoNote
               /\ noteDetectionStartTimeRef' = 0]_vars

\* C20: the latched found-correct flag of the current target, once set, is
\* cleared only by a step that installs a new target (a tick or a start):
\* estimation cycles, resetResults and the settings inputs leave it set.
C20_LatchClearedOnlyByNewTarget ==
    [][(everFoundCorrectForCurrentDegree /\ ~everFoundCorrectForCurrentDegree')
          => Installs /\ lastCombinationRef' # lastCombinationRef]_vars

\* C21: a no-pitch cycle drops the tracked candidate and its start time; it
\* resets the status to pending and the label to empty only if the current
\* target is not locked correct, so a locked target keeps its status and
\* label through no-pitch cycles.
C21_NoPitchKeepsLockedStatus ==
    [][\A t \in {now, FrameTime} :
          CycleAt(NoPitch, t) =>
              /\ currentDetectedNoteRef' = NoNote
              /\ noteDetectionStartTimeRef' = 0
              /\ IF hasFoundCorrect
                 THEN UNCHANGED <<noteStatus, detectedNote>>
                 ELSE noteStatus' = "pending" /\ detectedNote' = ""]_vars

\* C22: the entry appended for a target is true exactly when, while that
\* target was installed, a confirmed note had the pitch class expected for it
\* under the selected key and mode.
C22_EntryIsExpectedConfirmed ==
    [][Len(results') > Len(results)
          => results'[Len(results')] = expectedConfirmed]_vars

\* A settings input: key, mode, interval, volume or mute.
SettingsInput ==
    \/ \E k \in Keys : SetKey(k)
    \/ \E m \in Modes : SetMode(m)
    \/ SetInterval
    \/ SetVolume
    \/ SetMuted

\* C23: while the session is stopped the settings inputs leave the outcome
\* sequence unchanged, whatever the earlier sessions were.
C23_StoppedSettingsKeepResults ==
    [][(~isPlaying /\ SettingsInput) => results' = results]_vars

\* C24: in every reachable state at most one interval timer is armed and at
\* most one estimation loop is active.
C24_OneTimerOneLoop ==
    Cardinality(armedTimers) <= 1 /\ loops <= 1

\* C25: every confirmation is judged against the expected pitch class of the
\* target installed at that moment: the cycle shows correct, and credits the
\* target, exactly when the confirmed note is the one expected for it.
C25_JudgedAgainstInstalledTarget ==
    [][\A est \in Semitones :
          ConfirmingCycle(est) =>
              LET hit == frequencyToNote(est) = ExpectedOfInstalled
              IN  /\ noteStatus' = IF hit THEN "correct" ELSE "incorrect"
                  /\ everFoundCorrectForCurrentDegree' =
                         (everFoundCorrectForCurrentDegree \/ hit)]_vars

\* C26: resetResults empties the outcome sequence and clears the tracked
\* candidate; after it no step appends an entry until a note has been
\* confirmed again, and that confirmation ends a hold of at least 150 ms
\* begun after the reset.
C26_ResetHoldsBackEntries ==
    [][/\ ResetResults =>
            /\ results' = <<>>
            /\ currentDetectedNoteRef' = NoNote
            /\ noteDetectionStartTimeRef' = 0
            /\ ~confirmedSinceReset'
       /\ Len(results') > Len(results) => confirmedSinceReset
       /\ (~confirmedSinceReset /\ confirmedSinceReset') =>
            /\ noteDetectionStartTimeRef # 0
            /\ now' - noteDetectionStartTimeRef >= DETECTION_DURATION_MS]_vars

\* Reset was pressed in a running session whose target is locked correct,
\* the sequence is empty and a new hold is under way below the threshold.
C26_Witness ==
    /\ isPlaying
    /\ hasFoundCorrect
    /\ ~hasDetectedFirstNoteRef
    /\ results = <<>>
    /\ currentDetectedNoteRef # NoNote
    /\ now - noteDetectionStartTimeRef < DETECTION_DURATION_MS

\* C27: a settings input made while the session runs stops it: the timer is
\* cancelled, the chord silenced, estimation halted, and no target is
\* installed under the changed setting.
C27_SettingsInputStops ==
    [][(isPlaying /\ SettingsInput) =>
          /\ ~isPlaying'
          /\ armedTimers' = {}
          /\ currentOscillators' = 0
          /\ loops' = 0
          /\ lastCombinationRef' = lastCombinationRef
          /\ currentScaleDegree' = currentScaleDegree]_vars

\* What does hold of a settings input made while the session runs: the
\* session stops, the timer is cancelled, the chord silenced, the loop whose
\* id is held is cancelled, and no target is installed then or while the
\* session stays stopped.
SettingsInputStopsTimerAndChord ==
    [][/\ (isPlaying /\ SettingsInput) =>
            /\ ~isPlaying'
            /\ armedTimers' = {}
            /\ currentOscillators' = 0
            /\ loops' = LoopsAfterStop
       /\ ~isPlaying' =>
            /\ lastCombinationRef' = lastCombinationRef
            /\ currentScaleDegree' = currentScaleDegree]_vars

\* ----------------------------------------------------------------------
\* The do-while loop of generateNewScaleDegree, one pass at a time
\* ----------------------------------------------------------------------
\* performRandomize is about to call generateNewScaleDegree: at the first
\* start of the component (no previous combination) or at a tick of a
\* running session.
InitGenerator ==
    \/ Mounted(<<>>)
    \/ \E prev \in DrawsOver(NumDegrees) : Listening(0, "major", prev)

loopRest == <<settingVars, targetVars, gateVars, micVars, timerVars, loopVars,
              histVars, sideVars, isPlaying, results, lastCombinationRef,
              currentOscillators, pending, microtask, alertShown>>

\* The call: control enters the loop body.
CallGenerator ==
    /\ loopAt = "out" /\ loopScaleDegree = NoCombination
    /\ loopAt' = "body"
    /\ UNCHANGED <<loopScaleDegree, loopRest>>

\* The body of the loop: one draw.
DrawBody ==
    /\ loopAt = "body"
    /\ loopScaleDegree' \in DrawsOver(NumDegrees)
    /\ loopAt' = "while"
    /\ UNCHANGED loopRest

\* The while condition: back to the body on a repeat of the previous
\* combination, out of the function otherwise.
TestWhile ==
    /\ loopAt = "while"
    /\ loopAt' = IF SameCombination(loopScaleDegree, lastCombinationRef)
                 THEN "body" ELSE "out"
    /\ UNCHANGED <<loopScaleDegree, loopRest>>

NextGenerator == CallGenerator \/ DrawBody \/ TestWhile

SpecGenerator == InitGenerator /\ [][NextGenerator]_vars

\* JavaScript runs the function to completion: control keeps moving while
\* the function has not returned.
SpecGeneratorRuns == SpecGenerator /\ WF_vars(NextGenerator)

\* generateNewScaleDegree has returned loopScaleDegree.
Returned == loopAt = "out" /\ loopScaleDegree # NoCombination

\* C28: the loop redraws a bounded number of times and then accepts, so
\* generateNewScaleDegree returns on every execution.
C28_GeneratorReturns == <>Returned

\* C29: every target the generator returns has a degree in 1..7; a target of
\* degree 2..7 carries a direction, ABOVE or BELOW, and only degree 1 may
\* have none.
C29_TargetsAreWellFormed ==
    Returned =>
        /\ loopScaleDegree.degree \in 1..7
        /\ loopScaleDegree.direction \in {"NONE", "ABOVE", "BELOW"}
        /\ loopScaleDegree.degree \in 2..7 =>
               loopScaleDegree.direction \in {"ABOVE", "BELOW"}
        /\ loopScaleDegree.direction = "NONE" => loopScaleDegree.degree = 1

\* The generator has returned the seventh degree below, and elsewhere the
\* plain tonic.
C29_Witness ==
    /\ Returned
    /\ loopScaleDegree = [degree |-> 7, direction |-> "BELOW"]
    /\ lastCombinationRef = [degree |-> 1, direction |-> "NONE"]

\* The structural combinations: three variants of degree 1, two of each
\* other degree.
StructuralCombinations ==
    {[degree |-> 1, direction |-> d] : d \in {"NONE", "ABOVE", "BELOW"}}
      \cup {[degree |-> n, direction |-> d] : n \in 2..7, d \in {"ABOVE", "BELOW"}}

\* There are count structural combinations, and for every previous value
\* the loop can return each of them but the previous one, and nothing else.
ReturnsAllButPrevious(count) ==
    /\ Cardinality(StructuralCombinations) = count
    /\ loopScaleDegree # NoCombination => loopScaleDegree \in StructuralCombinations
    /\ Returned => loopScaleDegree # lastCombinationRef
    /\ loopAt = "body" =>
           \A c \in StructuralCombinations :
               ENABLED (DrawBody /\ loopScaleDegree' = c)
    /\ (loopAt = "while" /\ loopScaleDegree # lastCombinationRef) =>
           ENABLED (TestWhile /\ loopAt' = "out")

\* C30 as stated: the generator has 17 structural combinations and returns,
\* for every previous value, any of them but the previous one.
C30_SeventeenCombinations == ReturnsAllButPrevious(17)

\* C30 with the count that three variants of degree 1 and two of each of the
\* six other degrees give: 15.
C30_FifteenCombinations == ReturnsAllButPrevious(15)

\* After the plain tonic the generator has returned the tonic above: the
\* same degree in another variant.
C30_Witness ==
    /\ Returned
    /\ lastCombinationRef = [degree |-> 1, direction |-> "NONE"]
    /\ loopScaleDegree = [degree |-> 1, direction |-> "ABOVE"]

\* ----------------------------------------------------------------------
\* Judging and direction
\* ----------------------------------------------------------------------
\* The pitch class judged against, computed from the key, the mode and the
\* degree alone.
ExpectedOfDegree(keyIndex, degree, m) == (keyIndex + ScaleOf(m)[degree]) % 12

\* C31: direction does not influence judging.  Two runs that agree on key,
\* mode, target degrees and estimates agree on status and outcomes when
\* every step sets them by a rule that reads the degree and never the
\* direction: a confirming cycle shows correct, and latches, exactly when the
\* note is the one of the degree; every other change of the status is a
\* reset to pending; an appended entry is the latch.
C31_JudgingIgnoresDirection ==
    [][/\ \A est \in Semitones :
            ConfirmingCycle(est) =>
                LET hit == frequencyToNote(est) =
                             ExpectedOfDegree(currentStateRef.selectedKey,
                                              currentStateRef.currentScaleDegree.degree,
                                              currentStateRef.mode)
                IN  /\ noteStatus' = IF hit THEN "correct" ELSE "incorrect"
                    /\ everFoundCorrectForCurrentDegree' =
                           (everFoundCorrectForCurrentDegree \/ hit)
       /\ (noteStatus' # noteStatus /\ ~\E est \in Semitones : ConfirmingCycle(est))
             => noteStatus' = "pending"
       /\ Len(results') > Len(results)
             => results' = Append(results, everFoundCorrectForCurrentDegree)]_vars

\* A target with direction BELOW has been judged correct after an entry was
\* recorded.
C31_Witness ==
    /\ currentStateRef.currentScaleDegree.direction = "BELOW"
    /\ lastCombinationRef.direction = "BELOW"
    /\ noteStatus = "correct"
    /\ everFoundCorrectForCurrentDegree
    /\ Len(results) >= 1

\* ----------------------------------------------------------------------
\* Degree labels
\* ----------------------------------------------------------------------
PlainLabels(m) == IF m = "major" THEN <<"1", "2", "3", "4", "5", "6", "7">>
                  ELSE <<"1", "2", "b3", "4", "5", "b6", "b7">>

PitchClasses == 0..(NumNotes - 1)

IntervalFromKey(noteIndex, keyIndex) == (noteIndex - keyIndex + 12) % 12

\* C32: in every key and mode, the pitch class at position i of the mode's
\* interval table is labelled with the plain label of position i: "1".."7"
\* in major and "1","2","b3","4","5","b6","b7" in minor; the display shows
\* that label once such a pitch class has been confirmed.
C32_TableIntervalsGetPlainLabels ==
    /\ \A i \in 1..NumDegrees :
          noteToScaleDegree((selectedKey + ScaleOf(mode)[i]) % 12,
                            selectedKey, mode) = PlainLabels(mode)[i]
    /\ \A i \in 1..NumDegrees :
          (/\ hasDetectedFirstNoteRef
           /\ IntervalFromKey(currentDetectedNoteRef, selectedKey) = ScaleOf(mode)[i])
             => detectedNote = PlainLabels(mode)[i]

\* The lowered sixth has been confirmed in a minor key from the upper half
\* of the key list.
C32_Witness ==
    /\ mode = "minor"
    /\ selectedKey = 10
    /\ hasDetectedFirstNoteRef
    /\ IntervalFromKey(currentDetectedNoteRef, selectedKey) = 8
    /\ detectedNote = "b6"

\* C33: for every pitch class, key and mode the label is never the unknown
\* marker "?", neither as the function's value nor on the display after a
\* confirmation.
C33_LabelIsNeverUnknown ==
    /\ \A noteIndex \in PitchClasses :
          noteToScaleDegree(noteIndex, selectedKey, mode) # "?"
    /\ detectedNote # "?"

\* The raised sixth of a minor key, the last interval the rules reach, has
\* been confirmed and labelled.
C33_Witness ==
    /\ mode = "minor"
    /\ hasDetectedFirstNoteRef
    /\ IntervalFromKey(currentDetectedNoteRef, selectedKey) = 9
    /\ detectedNote = "6"

\* A pitch class outside the mode's table gets a label that is neither a
\* plain label of the mode nor the unknown marker.
OutsideTableIsAltered ==
    \A noteIndex \in PitchClasses :
        IndexOf(ScaleOf(mode), IntervalFromKey(noteIndex, selectedKey)) = 0
           => noteToScaleDegree(noteIndex, selectedKey, mode)
                 \notin {PlainLabels(mode)[i] : i \in 1..NumDegrees} \cup {"?"}

LabelOccurs(label) ==
    \E noteIndex \in PitchClasses, keyIndex \in PitchClasses, m \in Modes :
        noteToScaleDegree(noteIndex, keyIndex, m) = label

\* C34: a pitch class outside the mode's table gets an altered label, and
\* both kinds occur: some input is labelled "#4" and some input is labelled
\* "b2".
C34_BothAlterationsOccur ==
    /\ OutsideTableIsAltered
    /\ LabelOccurs("#4")
    /\ LabelOccurs("b2")

\* What the code does instead: the semitone above the key is "#1", and no
\* label of any input, computed or displayed, is a flat added by the
\* alteration rules.
AddedFlats == {"b" \o DegreeDigits[i] : i \in 1..NumDegrees} \ {"b3", "b6", "b7"}

FlatRuleNeverDecides ==
    /\ OutsideTableIsAltered
    /\ LabelOccurs("#4")
    /\ ~LabelOccurs("b2")
    /\ noteToScaleDegree((selectedKey + 1) % 12, selectedKey, mode) = "#1"
    /\ \A noteIndex \in PitchClasses, keyIndex \in PitchClasses, m \in Modes :
          /\ noteToScaleDegree(noteIndex, keyIndex, m) \notin AddedFlats
          /\ m = "major" => noteToScaleDegree(noteIndex, keyIndex, m)
                               \notin {"b3", "b6", "b7"}
    /\ detectedNote \notin AddedFlats

\* ----------------------------------------------------------------------
\* The chord
\* ----------------------------------------------------------------------
InitChord == InitNotes

\* playChord, the line that computes the frequencies given to the
\* oscillators.
ComputeFrequencies ==
    /\ frequencies' = getFrequency(selectedKey, mode)
    /\ UNCHANGED <<settingVars, targetVars, gateVars, micVars, timerVars,
                   loopVars, histVars, drawVars, searchVars, lifeVars,
                   isPlaying, results, lastCombinationRef, currentOscillators, pending,
                   microtask, alertShown>>

NextChord == ComputeFrequencies

SpecChord == InitChord /\ [][NextChord]_vars

\* C35: for every key index k and mode the triad has the offsets from C4 of
\* r, r + 4 in major or r + 3 in minor, and r + 7, where r = k - 12 for
\* k >= 8 and r = k otherwise.
C35_TriadOffsets ==
    LET r == IF selectedKey >= 8 THEN selectedKey - 12 ELSE selectedKey
        third == IF mode = "major" THEN 4 ELSE 3
    IN  /\ getFrequency(selectedKey, mode) = <<r, r + third, r + 7>>
        /\ frequencies # <<>> => frequencies = <<r, r + third, r + 7>>

\* The triad of B minor has been computed: B3, D4, F#4.
C35_Witness ==
    /\ selectedKey = 11
    /\ mode = "minor"
    /\ frequencies = <<0 - 1, 2, 6>>

\* 12 * log2(261.63 / 440), the offset of baseFrequency from A4, in
\* ten-thousandths of a semitone.
BaseFromA4 == -89997
Fine == 100 * 100

\* Math.round(12 * Math.log2(frequency / 440)) for the frequency
\* baseFrequency * semitoneRatio ^ e: the nearest whole number, halves
\* upward.
SemitonesFromA4(e) == (e * Fine + BaseFromA4 + Fine \div 2) \div Fine

\* C36: for every key and mode, the chord root, classified by
\* frequencyToNote, is the pitch class getExpectedNote gives for degree 1 of
\* the key, the keys of index 8..11 lowered by an octave included.
C36_RootIsDegreeOne ==
    /\ frequencyToNote(SemitonesFromA4(getFrequency(selectedKey, mode)[1]))
          = getExpectedNote(selectedKey, 1, mode)
    /\ frequencies # <<>> =>
          frequencyToNote(SemitonesFromA4(frequencies[1]))
             = getExpectedNote(selectedKey, 1, mode)

\* The root of the lowered key G# has been computed, 13 semitones below A4,
\* and classified as pitch class 8.
C36_Witness ==
    /\ selectedKey = 8
    /\ frequencies # <<>>
    /\ SemitonesFromA4(frequencies[1]) = 0 - 13
    /\ frequencyToNote(SemitonesFromA4(frequencies[1])) = 8

\* ----------------------------------------------------------------------
\* The autocorrelation search
\* ----------------------------------------------------------------------
\* Sample rates of the audio context.
SampleRates == {44100, 48000}

\* The sums of products the inner loop can give, in thousandths: negative,
\* zero, the threshold itself, above the threshold.
Correlations == {0 - 1, 0, 1, 2}

\* The threshold 0.001 of the signal test, in thousandths.
SignalThreshold == 1

\* Math.floor of a quotient of positive integers.
minPeriod(rate) == rate \div 800
maxPeriod(rate) == rate \div 80

InitSearch == Listening(0, "major", [degree |-> 1, direction |-> "NONE"])

searchRest == <<settingVars, targetVars, gateVars, micVars, timerVars, loopVars,
                histVars, drawVars, chordVars, lifeVars, isPlaying, results,
                lastCombinationRef, currentOscillators, pending, microtask,
                alertShown>>

\* detectPitch up to the loop: the sample rate is read and the search
\* starts at minPeriod.
BeginSearch(rate) ==
    /\ sampleRate = 0
    /\ sampleRate' = rate
    /\ maxCorrelation' = 0
    /\ bestPeriod' = 0
    /\ period' = minPeriod(rate)
    /\ UNCHANGED searchRest

\* One pass of the for loop: the correlation at this period is summed and
\* replaces the maximum when it is greater.
SearchPeriod(correlation) ==
    /\ sampleRate # 0
    /\ period < maxPeriod(sampleRate)
    /\ IF correlation > maxCorrelation
       THEN /\ maxCorrelation' = correlation
            /\ bestPeriod' = period
       ELSE UNCHANGED <<maxCorrelation, bestPeriod>>
    /\ period' = period + 1
    /\ UNCHANGED <<sampleRate, searchRest>>

NextSearch ==
    \/ \E rate \in SampleRates : BeginSearch(rate)
    \/ \E correlation \in Correlations : SearchPeriod(correlation)

SpecSearch == InitSearch /\ [][NextSearch]_vars

\* The loop has ended and the signal test passes: the frequency
\* sampleRate / bestPeriod is computed.
ReportsFrequency ==
    /\ sampleRate # 0
    /\ period = maxPeriod(sampleRate)
    /\ maxCorrelation > SignalThreshold
    /\ bestPeriod > 0

\* C39: whenever a pitch is reported, the frequency sampleRate / bestPeriod
\* lies within 80..800 Hz inclusive, for each sample rate, and bestPeriod is
\* not 0.
C39_ReportedFrequencyInRange ==
    ReportsFrequency =>
        /\ bestPeriod # 0
        /\ 80 * bestPeriod <= sampleRate
        /\ sampleRate <= 800 * bestPeriod

\* What the code does keep: bestPeriod is a period of the loop and not 0,
\* the frequency is above 80 Hz, and it is at most the sample rate divided
\* by the floor of sampleRate / 800, which is 800 Hz at 48000 and 44100 / 55
\* Hz at 44100.
ReportedFrequencyWithinFlooredBounds ==
    ReportsFrequency =>
        /\ bestPeriod \in minPeriod(sampleRate)..(maxPeriod(sampleRate) - 1)
        /\ 80 * bestPeriod < sampleRate
        /\ sampleRate <= bestPeriod * 800 + (sampleRate % 800)
        /\ sampleRate = 48000 => sampleRate <= 800 * bestPeriod

\* ----------------------------------------------------------------------
\* The life of the component and of the streams
\* ----------------------------------------------------------------------
\* The outcome of mounting, with and without an audio backend.
InitLifecycle == \E backend \in BOOLEAN : Constructed(<<>>, backend)

\* The component is removed: the cleanup of every effect runs.  The audio
\* context is closed, the interval is cleared, the chord and the last loop
\* are stopped, and the tracks of the stream held in microphoneStream are
\* stopped.  The setters called by stopPitchDetection no longer change
\* anything.
Unmount ==
    /\ mounted
    /\ mounted' = FALSE
    /\ audioContext' = "closed"
    /\ microphoneStream' = FALSE
    /\ armedTimers' = ClearedTimers
    /\ currentOscillators' = stopChord(currentOscillators)
    /\ loops' = LoopsAfterStop
    /\ pitchDetectionId' = FALSE
    /\ UNCHANGED <<settingVars, targetVars, gateVars, histVars, drawVars,
                   chordVars, searchVars, analyser, strayStream, intervalId,
                   isPlaying, results, lastCombinationRef, pending, microtask,
                   alertShown>>

\* getUserMedia resolves after the component was removed: the handler goes
\* on, its setters change nothing, and the stream it acquired is stopped by
\* nobody.
GrantedAfterUnmount(o) ==
    /\ ~mounted
    /\ pending[o] > 0
    /\ pending' = [pending EXCEPT ![o] = @ - 1]
    /\ strayStream' = TRUE
    /\ UNCHANGED <<settingVars, targetVars, gateVars, timerVars, loopVars,
                   histVars, drawVars, sideVars, microphoneStream, analyser,
                   isPlaying, results, lastCombinationRef, currentOscillators,
                   microtask, alertShown>>

\* getUserMedia rejects after the component was removed: the start handlers
\* still alert.
DeniedAfterUnmount(o) ==
    /\ ~mounted
    /\ pending[o] > 0
    /\ pending' = [pending EXCEPT ![o] = @ - 1]
    /\ alertShown' = (o # "detect")
    /\ UNCHANGED <<settingVars, targetVars, gateVars, micVars, timerVars,
                   loopVars, histVars, drawVars, sideVars, isPlaying, results,
                   lastCombinationRef, currentOscillators, microtask>>

NextLifecycle ==
    \/ Next
    \/ Unmount
    \/ \E o \in Origins : GrantedAfterUnmount(o)
    \/ \E o \in Origins : DeniedAfterUnmount(o)

SpecLifecycle == InitLifecycle /\ [][NextLifecycle]_vars

\* C37: without an audio backend the chord is a no-op and the session still
\* works as with one; in particular it can be started, from the keyboard and
\* from the button.
C37_SessionStartsWithoutBackend ==
    audioContext = "none" =>
        /\ mounted
        /\ ENABLED StartKey
        /\ ENABLED StartButton

\* The streams open: the one microphoneStream holds and the ones nothing
\* holds.
SomeStreamOpen == microphoneStream \/ strayStream
SeveralStreamsOpen == microphoneStream /\ strayStream

\* C38: every stream acquired by a start path stays open across stop and
\* start and is released at teardown: at most one stream is open at any
\* time, and after teardown none is.
C38_OneStreamReleasedAtTeardown ==
    /\ ~SeveralStreamsOpen
    /\ ~mounted => ~SomeStreamOpen

\* What the code does keep: the stream held in microphoneStream stays held
\* while the component is mounted, through every stop and start, and the
\* teardown releases it.
HeldStreamKeptUntilTeardown ==
    [][/\ (microphoneStream /\ mounted') => microphoneStream'
       /\ (mounted /\ ~mounted') => ~microphoneStream']_vars

====
